---------------------------- MODULE Spec2Model ----------------------------
(***************************************************************************)
(* SpacyPipelineRunner (scrc/dataset_construction/spacy_pipeline_runner.py) *)
(* as a state machine: the file system it reads and writes (input          *)
(* partitions, chunk files, progress ledgers, vocabulary snapshots), the   *)
(* runner object (active_model) and the position and locals of the one     *)
(* sequential process that executes run_pipeline or a direct call of       *)
(* run_spacy_pipeline.  The process can be killed between any two steps,   *)
(* and processing or writing a chunk can raise.                            *)
(***************************************************************************)
EXTENDS Integers, Sequences, FiniteSets, TLC

(***************************************************************************)
(* Bounds of the model.                                                    *)
(***************************************************************************)
\* Largest number of rows of an input partition.
MaxRows == 3
\* Largest chunk_size a direct call of run_spacy_pipeline passes.
MaxChunkSize == 2
\* Stand-in for the default chunk_size=1000 of run_spacy_pipeline.
DefaultChunkSize == 2
\* Number of run_pipeline runs (first run and reruns) and of direct calls of
\* run_spacy_pipeline in one behaviour.
MaxStarts == 3

(***************************************************************************)
(* Configuration: the languages of the config and the chamber names.       *)
(***************************************************************************)
languages == <<"de", "fr">>
Langs == {languages[i] : i \in 1..Len(languages)}
Chambers == {"A", "B"}
\* self.models
models == [l \in {"de", "fr", "it"} |->
             CASE l = "de" -> "de_core_news_lg"
               [] l = "fr" -> "fr_core_news_lg"
               [] l = "it" -> "it_core_news_lg"]
None == "None"
\* The line separator of the ledger file.
NL == "\n"

VARIABLES
  split,              \* split_subdir/<lang>/<chamber>.parquet : the inputs
  files,              \* spacy_subdir/<lang>/<chamber>/<k>.parquet
  ledger,             \* spacy_subdir/<lang>/chambers_processed.txt
  vocab,              \* spacy_subdir/<lang>/_vocab_<lang>.spacy
  active_model,       \* self.active_model
  pc,                 \* position of the process
  mode,               \* "run": run_pipeline, "call": direct run_spacy_pipeline
  li,                 \* index into languages of the for loop of run_pipeline
  lang,               \* the language whose directories are in use
  chambers_processed, \* run_pipeline's local: the ledger entries read
  todo,               \* the chambers process_chamber still has to iterate
  chamber,            \* the chamber being processed
  df,                 \* its partition, as read
  chunk_size,         \* run_spacy_pipeline's parameter
  override,           \* run_spacy_pipeline's parameter
  chunks,             \* run_spacy_pipeline's local
  chunk_num,          \* run_spacy_pipeline's loop index
  runs,               \* number of run_pipeline runs started
  calls,              \* number of direct calls started
  aborted             \* history: the <<lang, chamber>> that a failed chunk write
                      \* aborted in a run of run_pipeline

\* The state of LowerCourtExtractor, a program of its own.
VARIABLES
  spider_list,        \* the spiders the extractor is to go through
  functions,          \* the spiders lower_court_extracting_functions knows
  processed_file,     \* progress_dir/spiders_lower_court_extracted.txt
  lower_court,        \* the rows whose lower_court column has been written
  logged,             \* the notices logged
  ext_pc,             \* position of the extractor's process
  spiders_todo,       \* the spiders the loop still has to iterate
  spider,             \* the spider being processed
  ext_li,             \* index into languages of the loop over the languages
  selected,           \* the last selection: its spider, language and rows
  ext_starts          \* number of times the extractor was started

vars == <<split, files, ledger, vocab, active_model, pc, mode, li, lang,
          chambers_processed, todo, chamber, df, chunk_size, override,
          chunks, chunk_num, runs, calls, aborted,
          spider_list, functions, processed_file, lower_court, logged, ext_pc,
          spiders_todo, spider, ext_li, selected, ext_starts>>

fsvars == <<split, files, ledger, vocab>>
locals == <<chambers_processed, todo, chamber, df, chunk_size, override,
            chunks, chunk_num>>

\* The runner's state and the extractor's.
runnervars == <<split, files, ledger, vocab, active_model, pc, mode, li, lang,
                chambers_processed, todo, chamber, df, chunk_size, override,
                chunks, chunk_num, runs, calls, aborted>>
extvars == <<spider_list, functions, processed_file, lower_court, logged, ext_pc,
             spiders_todo, spider, ext_li, selected, ext_starts>>

(***************************************************************************)
(* Files.  A path holds no file, a complete file, or the truncated rest of *)
(* a write that did not finish.                                            *)
(***************************************************************************)
NoFile == [state |-> "absent", rows |-> <<>>]
Partial == [state |-> "partial", rows |-> <<>>]
File(content) == [state |-> "full", rows |-> content]
Exists(f) == f.state # "absent"

\* The largest chunk index any partition of the model can have.
ChunkIdx == 0..(MaxRows - 1)

Min(a, b) == IF a < b THEN a ELSE b

\* A partition of n decisions; a decision is identified by its text.
Partition(n) == [i \in 1..n |-> i]

(***************************************************************************)
(* Python's range(start, stop, step) and df[i:j].                          *)
(***************************************************************************)
RECURSIVE Range(_, _, _)
Range(start, stop, step) ==
  IF start >= stop THEN <<>>
  ELSE <<start>> \o Range(start + step, stop, step)

Slice(s, i, j) == SubSeq(s, i + 1, Min(j, Len(s)))

\* Mutant: the slices end one row early, df[i:i + chunk_size - 1].
SplitChunks_ShortSlice(d, cs) ==
  LET starts == Range(0, Len(d), cs)
  IN  [k \in 1..Len(starts) |-> Slice(d, starts[k], starts[k] + cs - 1)]

\* chunks = [df[i:i + chunk_size] for i in range(0, df.shape[0], chunk_size)]
SplitChunks(d, cs) ==
  LET starts == Range(0, Len(d), cs)
  IN  [k \in 1..Len(starts) |-> Slice(d, starts[k], starts[k] + cs)]

\* doc.to_bytes() of the document the model m makes of text t
DocBytes(m, t) == <<m, t>>

\* chunk['spacy_doc_bytes'] = doc_bytes
Enrich(chunk, m) ==
  [i \in 1..Len(chunk) |-> [text |-> chunk[i], spacy_doc_bytes |-> DocBytes(m, chunk[i])]]

(***************************************************************************)
(* The ledger file is text: chamber names, each followed by a newline.     *)
(* Text is a sequence of tokens, a token being a chamber name or NL.       *)
(***************************************************************************)
\* str.split("\n"): the pieces between the separators, the empty ones too.
RECURSIVE SplitText(_, _)
SplitText(text, cur) ==
  IF text = <<>> THEN <<cur>>
  ELSE IF Head(text) = NL THEN <<cur>> \o SplitText(Tail(text), <<>>)
  ELSE SplitText(Tail(text), Append(cur, Head(text)))

ReadLedgerEntries(text) == SplitText(text, <<>>)

SeqToSet(s) == {s[i] : i \in 1..Len(s)}

\* Mutant: the ledger is not subtracted from the chamber list.
NotYetProcessed_NoLedger(chamber_list, processed) == chamber_list

\* set(chamber_list) - set(chambers_processed)
NotYetProcessed(chamber_list, processed) ==
  {c \in chamber_list : <<c>> \notin SeqToSet(processed)}

\* glob(in_lang_dir/*.parquet), stems
ChamberList(l) == {c \in Chambers : Exists(split[l][c])}

\* Mutant: the ledger is opened with "w", which truncates it.
AppendLine_Truncate(text, c) == <<c, NL>>

\* f.write(chamber + "\n") on a file opened with "a"
AppendLine(text, c) == text \o <<c, NL>>

(***************************************************************************)
(* Initial state: a freshly constructed runner over an output directory    *)
(* that holds nothing yet.  The input directory is drawn from the layouts  *)
(* below and never changes: the first language has chamber A of 0..MaxRows *)
(* rows and chamber B of one row, every other language chamber A of one    *)
(* row.                                                                    *)
(***************************************************************************)
InputLayouts ==
  {[l \in Langs |->
      IF l = languages[1]
      THEN [c \in Chambers |-> File(Partition(IF c = "A" THEN n ELSE 1))]
      ELSE [c \in Chambers |-> IF c = "A" THEN File(Partition(1)) ELSE NoFile]]
   : n \in 0..MaxRows}

NoLedger == [exists |-> FALSE, text |-> <<>>]

(***************************************************************************)
(* The data of LowerCourtExtractor.  The database holds one decision of    *)
(* every spider, language and header; a header is NULL, the empty string   *)
(* or text.                                                                *)
(***************************************************************************)
Spiders == {"X", "Y", "Z"}
Headers == {None, "", "h"}
Decisions == [spider : Spiders, language : Langs, header : Headers]

NoSelection == [spider |-> None, lang |-> None, rows |-> {}]

\* The extractor before its first start: nothing extracted, marked or logged.
ExtractorNotStarted ==
  /\ processed_file = <<>>
  /\ lower_court = {}
  /\ logged = {}
  /\ ext_pc = "idle"
  /\ spiders_todo = {}
  /\ spider = None
  /\ ext_li = 1
  /\ selected = NoSelection
  /\ ext_starts = 0

RunnerInit ==
  /\ split \in InputLayouts
  /\ files = [l \in Langs |-> [c \in Chambers |-> [k \in ChunkIdx |-> NoFile]]]
  /\ ledger = [l \in Langs |-> NoLedger]
  /\ vocab = [l \in Langs |-> None]
  /\ active_model = None
  /\ pc = "idle"
  /\ mode = "run"
  /\ li = 1
  /\ lang = languages[1]
  /\ chambers_processed = <<>>
  /\ todo = {}
  /\ chamber = "A"    \* no chamber yet: a placeholder
  /\ df = <<>>
  /\ chunk_size = DefaultChunkSize
  /\ override = FALSE
  /\ chunks = <<>>
  /\ chunk_num = 0
  /\ runs = 0
  /\ calls = 0
  /\ aborted = {}

\* The runner's program: the extractor is not run, every spider has its
\* function.
Init ==
  /\ RunnerInit
  /\ spider_list = Spiders
  /\ functions = Spiders
  /\ ExtractorNotStarted

\* No process is executing: before the first run, or after a run or call
\* returned ("done"), raised ("failed") or was killed ("killed").
Stopped == pc \in {"idle", "done", "failed", "killed"}
Running == ~Stopped

(***************************************************************************)
(* run_pipeline                                                            *)
(***************************************************************************)
\* run_pipeline is entered.
StartRun ==
  /\ Stopped
  /\ runs + calls < MaxStarts
  /\ runs' = runs + 1
  /\ pc' = "lang"
  /\ mode' = "run"
  /\ li' = 1
  /\ lang' = languages[1]
  /\ chambers_processed' = <<>>
  /\ todo' = {}
  /\ chunk_size' = DefaultChunkSize
  /\ override' = FALSE
  /\ chamber' = "A"
  /\ df' = <<>>
  /\ chunks' = <<>>
  /\ chunk_num' = 0
  /\ UNCHANGED <<fsvars, active_model, calls, aborted, extvars>>

\* Mutant: the model of the first language is loaded for every language.
LoadModel_Stale ==
  /\ pc = "lang"
  /\ li <= Len(languages)
  /\ lang' = languages[li]
  /\ active_model' = models[languages[1]]
  /\ pc' = "ledger"
  /\ UNCHANGED <<fsvars, mode, li, locals, runs, calls, aborted, extvars>>

\* for lang in self.languages: load the language's model.
LoadModel ==
  /\ pc = "lang"
  /\ li <= Len(languages)
  /\ lang' = languages[li]
  /\ active_model' = models[languages[li]]
  /\ pc' = "ledger"
  /\ UNCHANGED <<fsvars, mode, li, locals, runs, calls, aborted, extvars>>

\* glob the input chambers, touch and read the ledger, and compute the
\* chambers not yet processed.
ReadLedger ==
  /\ pc = "ledger"
  /\ LET text == IF ledger[lang].exists THEN ledger[lang].text ELSE <<>>
         entries == ReadLedgerEntries(text)
     IN  /\ ledger' = [ledger EXCEPT ![lang] = [exists |-> TRUE, text |-> text]]
         /\ chambers_processed' = entries
         /\ todo' = NotYetProcessed(ChamberList(lang), entries)
  /\ pc' = "chambers"
  /\ UNCHANGED <<split, files, vocab, active_model, mode, li, lang, chamber,
                 df, chunk_size, override, chunks, chunk_num, runs, calls, aborted, extvars>>

\* for chamber in chambers_not_yet_processed (a set: any order):
\* read the partition and call run_spacy_pipeline with its defaults.
PickChamber ==
  /\ pc = "chambers"
  /\ \E c \in todo :
       /\ chamber' = c
       /\ df' = split[lang][c].rows
       /\ todo' = todo \ {c}
  /\ chunk_size' = DefaultChunkSize
  /\ override' = FALSE
  /\ pc' = "rsp"
  /\ UNCHANGED <<fsvars, active_model, mode, li, lang, chambers_processed,
                 chunks, chunk_num, runs, calls, aborted,
          spider_list, functions, processed_file, lower_court, logged, ext_pc,
          spiders_todo, spider, ext_li, selected, ext_starts>>

\* Mutant: process_chamber returns after any number of chambers.
ChambersDone_Early ==
  /\ pc = "chambers"
  /\ pc' = "vocab"
  /\ UNCHANGED <<fsvars, active_model, mode, li, lang, locals, runs, calls, aborted, extvars>>

\* process_chamber returns: the loop over the chambers is exhausted.
ChambersDone ==
  /\ pc = "chambers"
  /\ todo = {}
  /\ pc' = "vocab"
  /\ UNCHANGED <<fsvars, active_model, mode, li, lang, locals, runs, calls, aborted, extvars>>

\* Mutant: the loop over the languages does not advance.
SaveVocab_NoAdvance ==
  /\ pc = "vocab"
  /\ vocab' = [vocab EXCEPT ![lang] = active_model]
  /\ pc' = "lang"
  /\ UNCHANGED <<split, files, ledger, active_model, mode, li, lang, locals,
                 runs, calls, aborted, extvars>>

\* self.active_model.vocab.to_disk(...), and on to the next language.
SaveVocab ==
  /\ pc = "vocab"
  /\ vocab' = [vocab EXCEPT ![lang] = active_model]
  /\ li' = li + 1
  /\ pc' = "lang"
  /\ UNCHANGED <<split, files, ledger, active_model, mode, lang, locals,
                 runs, calls, aborted, extvars>>

\* The loop over the languages is exhausted: run_pipeline returns.
FinishRun ==
  /\ pc = "lang"
  /\ li > Len(languages)
  /\ pc' = "done"
  /\ UNCHANGED <<fsvars, active_model, mode, li, lang, locals, runs, calls, aborted, extvars>>

\* with chambers_processed_path.open("a") as f: f.write(chamber + "\n")
AppendLedger ==
  /\ pc = "append"
  /\ ledger' = [ledger EXCEPT ![lang] =
                  [exists |-> TRUE, text |-> AppendLine(ledger[lang].text, chamber)]]
  /\ pc' = "chambers"
  /\ UNCHANGED <<split, files, vocab, active_model, mode, li, lang, locals,
                 runs, calls, aborted, extvars>>

(***************************************************************************)
(* run_spacy_pipeline                                                      *)
(***************************************************************************)
\* get_chunk_path(base_dir, chamber, chunk_num)
ChunkAt(l, c, k) == files[l][c][k]

\* Where control goes when run_spacy_pipeline returns: back into
\* process_chamber (the ledger append), or to the direct caller.
AfterReturn == IF mode = "run" THEN "append" ELSE "done"

\* Mutant: the existence of the first chunk is not looked at.
MustProcess_Always(ov, first_chunk) == TRUE

\* Mutant: override is not looked at.
MustProcess_IgnoreOverride(ov, first_chunk) == ~Exists(first_chunk)

\* if override or not first_chunk_path.exists()
MustProcess(ov, first_chunk) == ov \/ ~Exists(first_chunk)

\* The existence check of the first chunk: split df into chunks and enter
\* the loop, or print that the docs already exist and return.
CheckFirstChunk ==
  /\ pc = "rsp"
  /\ IF MustProcess(override, ChunkAt(lang, chamber, 0))
     THEN /\ chunks' = SplitChunks(df, chunk_size)
          /\ chunk_num' = 0
          /\ pc' = "chunk"
     ELSE /\ pc' = AfterReturn
          /\ UNCHANGED <<chunks, chunk_num>>
  /\ UNCHANGED <<fsvars, active_model, mode, li, lang, chambers_processed,
                 todo, chamber, df, chunk_size, override, runs, calls, aborted, extvars>>

\* Mutant: the chunk files are numbered from 1, enumerate(chunks, 1).
WriteChunk_FromOne(l, c, k, chunk, m) ==
  [files EXCEPT ![l][c][k + 1] = File(Enrich(chunk, m))]

\* chunk.to_parquet(path) of the chunk with its spacy_doc_bytes column
WriteChunk(l, c, k, chunk, m) ==
  [files EXCEPT ![l][c][k] = File(Enrich(chunk, m))]

\* One iteration of the loop over the chunks: pipe the texts through the
\* active model, attach the doc bytes, write the chunk file.
ProcessChunk ==
  /\ pc = "chunk"
  /\ chunk_num < Len(chunks)
  /\ active_model # None
  /\ files' = WriteChunk(lang, chamber, chunk_num, chunks[chunk_num + 1], active_model)
  /\ chunk_num' = chunk_num + 1
  /\ UNCHANGED <<split, ledger, vocab, active_model, pc, mode, li, lang,
                 chambers_processed, todo, chamber, df, chunk_size, override,
                 chunks, runs, calls, aborted, extvars>>

\* What a raising iteration leaves at the chunk's path: the path as it was
\* (the model raised, or the write raised before opening the file), a
\* truncated file, or no file (a parquet writer that removes its output
\* when it fails).  With no model loaded, pipe raises: the path is as it was.
FailOutcomes == {"untouched", "partial", "removed"}

AfterFailedWrite(old, outcome) ==
  CASE outcome = "untouched" -> old
    [] outcome = "partial" -> Partial
    [] outcome = "removed" -> NoFile

\* Mutant: the chamber is recorded in a finally clause, whether or not its
\* chunks succeeded.
LedgerAfterFailure_Finally(l, c) ==
  [ledger EXCEPT ![l] = [exists |-> TRUE, text |-> AppendLine(ledger[l].text, c)]]

\* The ledger after an iteration of a chamber raised: nothing catches the
\* exception between the chunk loop and the top of run_pipeline.
LedgerAfterFailure(l, c) == ledger

\* An iteration raises: the exception propagates out of run_spacy_pipeline,
\* process_chamber and run_pipeline.
ChunkFail ==
  /\ pc = "chunk"
  /\ chunk_num < Len(chunks)
  /\ \E outcome \in FailOutcomes :
       /\ active_model = None => outcome = "untouched"
       /\ files' = [files EXCEPT ![lang][chamber][chunk_num] =
                      AfterFailedWrite(@, outcome)]
       /\ aborted' = IF outcome = "untouched" \/ mode # "run" THEN aborted
                      ELSE aborted \cup {<<lang, chamber>>}
  /\ ledger' = LedgerAfterFailure(lang, chamber)
  /\ pc' = "failed"
  /\ UNCHANGED <<split, vocab, active_model, mode, li, lang, locals, runs, calls,
                 extvars>>

\* The loop over the chunks is exhausted: run_spacy_pipeline returns.
ChunksDone ==
  /\ pc = "chunk"
  /\ chunk_num = Len(chunks)
  /\ pc' = AfterReturn
  /\ UNCHANGED <<fsvars, active_model, mode, li, lang, locals, runs, calls, aborted, extvars>>

\* A direct call run_spacy_pipeline(df, chamber, base_dir, chunk_size,
\* override) on the runner, with the partition of a chamber as df.
CallRunSpacyPipeline ==
  /\ Stopped
  /\ runs + calls < MaxStarts
  /\ calls' = calls + 1
  /\ \E l \in Langs, c \in Chambers, cs \in 1..MaxChunkSize, ov \in BOOLEAN :
       /\ c \in ChamberList(l)
       /\ lang' = l
       /\ chamber' = c
       /\ df' = split[l][c].rows
       /\ chunk_size' = cs
       /\ override' = ov
  /\ mode' = "call"
  /\ pc' = "rsp"
  /\ li' = 1
  /\ chambers_processed' = <<>>
  /\ todo' = {}
  /\ chunks' = <<>>
  /\ chunk_num' = 0
  /\ UNCHANGED <<fsvars, active_model, runs, aborted, extvars>>

(***************************************************************************)
(* The process is killed (the interruption of a run).  The next run is a   *)
(* new process with a newly constructed runner.                            *)
(***************************************************************************)
\* The locals of a killed process are gone.
LocalsGone ==
  /\ li' = 1
  /\ lang' = languages[1]
  /\ chambers_processed' = <<>>
  /\ todo' = {}
  /\ chamber' = "A"
  /\ df' = <<>>
  /\ chunk_size' = DefaultChunkSize
  /\ override' = FALSE
  /\ chunks' = <<>>
  /\ chunk_num' = 0

Interrupt ==
  /\ Running
  /\ pc' = "killed"
  /\ active_model' = None
  /\ LocalsGone
  /\ UNCHANGED <<fsvars, mode, runs, calls, aborted, extvars>>

\* Killed inside to_parquet: the chunk's file is left truncated.
InterruptWrite ==
  /\ pc = "chunk"
  /\ chunk_num < Len(chunks)
  /\ active_model # None
  /\ files' = [files EXCEPT ![lang][chamber][chunk_num] = Partial]
  /\ pc' = "killed"
  /\ active_model' = None
  /\ LocalsGone
  /\ UNCHANGED <<split, ledger, vocab, mode, runs, calls, aborted, extvars>>

\* The steps of run_pipeline and of what it calls.
RunStep ==
  \/ LoadModel
  \/ ReadLedger
  \/ PickChamber
  \/ ChambersDone
  \/ CheckFirstChunk
  \/ ProcessChunk
  \/ ChunksDone
  \/ AppendLedger
  \/ SaveVocab
  \/ FinishRun

Next ==
  \/ StartRun
  \/ CallRunSpacyPipeline
  \/ RunStep
  \/ ChunkFail
  \/ Interrupt
  \/ InterruptWrite

\* Runs, reruns, failures, interruptions and direct calls.
Spec == Init /\ [][Next]_vars

\* The same without direct calls: override is never requested.
NextRuns ==
  \/ StartRun
  \/ RunStep
  \/ ChunkFail
  \/ Interrupt
  \/ InterruptWrite

SpecRuns == Init /\ [][NextRuns]_vars

(***************************************************************************)
(* Vocabulary of the properties.                                           *)
(***************************************************************************)
\* ceil(n / c)
CeilDiv(n, c) == (n + c - 1) \div c

\* The chamber names a ledger lists, and how often it lists one.
LedgerEntries(l) == ReadLedgerEntries(ledger[l].text)
InLedger(l, c) == <<c>> \in SeqToSet(LedgerEntries(l))
Occurrences(l, c) ==
  Cardinality({i \in 1..Len(LedgerEntries(l)) : LedgerEntries(l)[i] = <<c>>})

\* The number of rows of the input partition of chamber c of language l.
NumRows(l, c) == Len(split[l][c].rows)

\* A chunk file without its spacy_doc_bytes column.
Original(f) == [i \in 1..Len(f.rows) |-> f.rows[i].text]

\* Rows k*C+1 .. min((k+1)*C, N) of a partition: what chunk k is to hold.
ExpectedChunk(d, C, k) ==
  [i \in 1..(Min((k + 1) * C, Len(d)) - k * C) |-> d[k * C + i]]

\* The chunk files 0..n-1 of a chamber, concatenated in index order.
RECURSIVE Concatenated(_, _, _)
Concatenated(l, c, n) ==
  IF n = 0 THEN <<>>
  ELSE Concatenated(l, c, n - 1) \o Original(ChunkAt(l, c, n - 1))

IsPrefix(s, t) == Len(s) <= Len(t) /\ SubSeq(t, 1, Len(s)) = s

\* run_pipeline is inside process_chamber, working on `chamber`.
InChamber == mode = "run" /\ pc \in {"rsp", "chunk", "append"}

(***************************************************************************)
(* C1.  A chamber is in a language's ledger only if every one of its       *)
(* ceil(N/C) chunk files exists (runs, interruptions and reruns, override  *)
(* never requested).  The code violates it: a rerun finds chunk 0 of an    *)
(* interrupted chamber, skips the chamber and records it.                  *)
(***************************************************************************)
C1_LedgerImpliesAllChunks ==
  \A l \in Langs : \A c \in ChamberList(l) :
    InLedger(l, c) =>
      \A k \in 0..(CeilDiv(NumRows(l, c), DefaultChunkSize) - 1) :
        Exists(ChunkAt(l, c, k))

(***************************************************************************)
(* C2.  A run of run_pipeline leaves every chamber alone that was in the   *)
(* ledger when the run read it: the run never makes it the chamber being   *)
(* processed (its input is not read, the model is not invoked on it), no   *)
(* step changes any of its chunk files, and no step appends it to the      *)
(* ledger again.                                                           *)
(***************************************************************************)
C2_LedgerMarkedNeverReprocessed ==
  [][(mode = "run" /\ pc \in {"chambers", "rsp", "chunk", "append"}) =>
       \A c \in Chambers :
         <<c>> \in SeqToSet(chambers_processed) =>
           /\ files'[lang][c] = files[lang][c]
           /\ (pc' \in {"rsp", "chunk", "append"} => chamber' # c)
           /\ Occurrences(lang, c)' = Occurrences(lang, c)]_vars

\* A rerun with A in the ledger it read is processing B.
C2_Witness ==
  /\ InChamber
  /\ pc = "chunk"
  /\ chunk_num = 1
  /\ chamber = "B"
  /\ <<"A">> \in SeqToSet(chambers_processed)

(***************************************************************************)
(* C3.  While run_pipeline is inside a chamber and up to the failure of    *)
(* one of its chunks, no step changes any ledger; the failure ends the run *)
(* (the error propagates), and the chamber is not in the ledger then.      *)
(* The entries of the chambers completed earlier are still there.          *)
(***************************************************************************)
C3_FailureLeavesLedger ==
  [][(mode = "run" /\ pc \in {"rsp", "chunk"}) =>
       /\ ledger' = ledger
       /\ (pc' = "failed" => ~InLedger(lang, chamber)')]_vars

\* The second chamber of a language failed at its second chunk; the first
\* chamber's entry, appended earlier in the same run, is in the ledger.
C3_Witness ==
  /\ pc = "failed"
  /\ mode = "run"
  /\ runs = 1
  /\ chunk_num = 1
  /\ ledger[lang].text # <<>>
  /\ ~InLedger(lang, chamber)

(***************************************************************************)
(* C4.  A chamber that a failed chunk write aborted is safe to retry: when *)
(* a later run of run_pipeline (override not requested) returns, all the   *)
(* ceil(N/C) chunk files of the chamber are complete and the chamber is in *)
(* the ledger.  The code violates it: if the failure left a file at chunk  *)
(* 0 (it happened at a later chunk, or left chunk 0 truncated), the retry  *)
(* skips the chamber and records it.                                       *)
(***************************************************************************)
C4_RetryCompletesChamber ==
  (pc = "done" /\ mode = "run") =>
    \A l \in Langs : \A c \in ChamberList(l) :
      <<l, c>> \in aborted =>
        /\ InLedger(l, c)
        /\ \A k \in 0..(CeilDiv(NumRows(l, c), DefaultChunkSize) - 1) :
             ChunkAt(l, c, k).state = "full"

(***************************************************************************)
(* C5.  A call of run_spacy_pipeline with override=False never writes to a *)
(* chunk path at which a file exists.  The code violates it: only chunk 0  *)
(* is checked, so when chunk 0 is missing and a later chunk exists, the    *)
(* later chunk is overwritten.                                             *)
(***************************************************************************)
C5_NoOverwriteWithoutOverride ==
  [][(pc = "chunk" /\ ~override /\ files' # files) =>
       ~Exists(ChunkAt(lang, chamber, chunk_num))]_vars

(***************************************************************************)
(* C6.  No ledger ever lists a chamber name more than once, and when       *)
(* run_pipeline has returned, the ledger of every configured language      *)
(* lists every input chamber of the language exactly once.                 *)
(***************************************************************************)
C6_LedgerListsEachChamberOnce ==
  /\ \A l \in Langs : \A c \in Chambers : Occurrences(l, c) <= 1
  /\ (pc = "done" /\ mode = "run") =>
       \A l \in Langs : \A c \in ChamberList(l) : Occurrences(l, c) = 1

\* A rerun after an interrupted or failed run has returned, with both
\* chambers of the first language listed.
C6_Witness ==
  /\ pc = "done"
  /\ mode = "run"
  /\ runs = 2
  /\ Len(LedgerEntries(languages[1])) = 3
  /\ Occurrences(languages[1], "A") = 1
  /\ Occurrences(languages[1], "B") = 1

(***************************************************************************)
(* C7.  Inside the chunk loop of run_spacy_pipeline, for a partition of N  *)
(* rows and chunk size C: the partition was split into ceil(N/C) chunks;   *)
(* each chunk file written so far, without its spacy_doc_bytes column, is  *)
(* complete and holds rows k*C+1..min((k+1)*C, N), so at most C rows and   *)
(* exactly C in all but the last; when the loop has ended, the files       *)
(* 0..ceil(N/C)-1 concatenated in index order are the partition; and if    *)
(* chunk_size was never varied no file with a higher index exists.         *)
(***************************************************************************)
C7_ChunksPartitionTheRows ==
  pc = "chunk" =>
    LET N == Len(df)
        C == chunk_size
        n == CeilDiv(N, C)
    IN  /\ Len(chunks) = n
        /\ chunk_num <= n
        /\ \A k \in 0..(chunk_num - 1) :
             LET f == ChunkAt(lang, chamber, k)
             IN  /\ f.state = "full"
                 /\ Len(f.rows) <= C
                 /\ (k < n - 1 => Len(f.rows) = C)
                 /\ Original(f) = ExpectedChunk(df, C, k)
        /\ chunk_num = n => Concatenated(lang, chamber, n) = df
        /\ calls = 0 => \A k \in ChunkIdx : k >= n => ~Exists(ChunkAt(lang, chamber, k))

\* The loop over a partition of MaxRows rows has ended without override:
\* several chunks were written, the last one shorter or equal.
C7_Witness ==
  /\ pc = "chunk"
  /\ ~override
  /\ Len(df) = MaxRows
  /\ chunk_num = Len(chunks)
  /\ chunk_num >= 2

(***************************************************************************)
(* C8.  When run_spacy_pipeline finds a file at chunk 0 and override is    *)
(* not requested, it returns at once: the step changes no chunk file and   *)
(* does not enter the chunk loop (the model is invoked on no row),         *)
(* whatever files exist at the higher indices.                             *)
(***************************************************************************)
C8_FirstChunkSkipsPartition ==
  [][(pc = "rsp" /\ ~override /\ Exists(ChunkAt(lang, chamber, 0))) =>
       /\ files' = files
       /\ pc' \in {AfterReturn, "killed"}]_vars

\* run_pipeline skipped a chamber of two chunks whose second chunk file is
\* missing, and is about to record it.
C8_Witness ==
  /\ pc = "append"
  /\ ~override
  /\ CeilDiv(Len(df), chunk_size) = 2
  /\ Exists(ChunkAt(lang, chamber, 0))
  /\ ~Exists(ChunkAt(lang, chamber, 1))

(***************************************************************************)
(* C9.  When a call of run_spacy_pipeline with override=True has returned, *)
(* every chunk file 0..ceil(N/C)-1 of the chamber is complete, was written *)
(* by this call (its doc bytes are those of the active model) and holds    *)
(* the rows k*C+1..min((k+1)*C, N) with their original values: what a call *)
(* without override writes into an empty directory (C7), whatever files    *)
(* existed before.                                                         *)
(***************************************************************************)
C9_OverrideRegeneratesChunks ==
  (pc = "done" /\ mode = "call" /\ override) =>
    \A k \in 0..(CeilDiv(Len(df), chunk_size) - 1) :
      ChunkAt(lang, chamber, k) =
        File(Enrich(ExpectedChunk(df, chunk_size, k), active_model))

\* An override call returned on a chamber that a run_pipeline run had
\* written before with another chunk size.
C9_Witness ==
  /\ pc = "done"
  /\ mode = "call"
  /\ override
  /\ runs >= 1
  /\ Len(df) = MaxRows
  /\ chunk_size # DefaultChunkSize
  /\ InLedger(lang, chamber)

(***************************************************************************)
(* C10.  The ledger is append-only: every step leaves the text of every    *)
(* ledger a prefix of its new text and removes no ledger file, and a step  *)
(* that changes a ledger is a step of run_pipeline on the language it is   *)
(* processing.                                                             *)
(***************************************************************************)
C10_LedgerAppendOnly ==
  [][\A l \in Langs :
       /\ IsPrefix(ledger[l].text, ledger'[l].text)
       /\ (ledger[l].exists => ledger'[l].exists)
       /\ (ledger'[l] # ledger[l] =>
             mode = "run" /\ Running /\ l = languages[li] /\ l = lang)]_vars

\* In a rerun, a chamber has been appended behind an entry of an earlier run.
C10_Witness ==
  /\ runs = 2
  /\ mode = "run"
  /\ pc = "chambers"
  /\ Len(chambers_processed) = 2
  /\ Len(LedgerEntries(lang)) = 3

(***************************************************************************)
(* C13.  Chunks are written in index order: inside the chunk loop every    *)
(* chunk below the loop index has been written, and in runs without        *)
(* override the existing chunk files of a chamber always are the files of  *)
(* an initial segment 0..j-1 of the indices.                               *)
(***************************************************************************)
C13_ChunksInIndexOrder ==
  /\ pc = "chunk" =>
       \A k \in 0..(chunk_num - 1) : ChunkAt(lang, chamber, k).state = "full"
  /\ \A l \in Langs : \A c \in Chambers : \A k \in ChunkIdx :
       Exists(ChunkAt(l, c, k)) => \A j \in 0..(k - 1) : Exists(ChunkAt(l, c, j))

\* After an interrupted run: chunk 0 of a two-chunk chamber exists alone.
C13_Witness ==
  /\ pc = "killed"
  /\ \E l \in Langs : \E c \in ChamberList(l) :
       /\ CeilDiv(NumRows(l, c), DefaultChunkSize) = 2
       /\ ChunkAt(l, c, 0).state = "full"
       /\ ~Exists(ChunkAt(l, c, 1))

(***************************************************************************)
(* C14.  A run of run_pipeline that comes to a chamber whose chunk 0       *)
(* exists while a later chunk is missing (an earlier run was interrupted   *)
(* inside it) treats it as processed: unless the run is killed, it goes    *)
(* straight to the ledger append without writing a chunk file, and the     *)
(* append records the chamber, chunk files still missing.                  *)
(***************************************************************************)
SomeChunkMissing(l, c) ==
  \E k \in 0..(CeilDiv(NumRows(l, c), DefaultChunkSize) - 1) : ~Exists(ChunkAt(l, c, k))

C14_InterruptedChamberRecorded ==
  [][(/\ mode = "run"
      /\ pc \in {"rsp", "append"}
      /\ Exists(ChunkAt(lang, chamber, 0))
      /\ SomeChunkMissing(lang, chamber)) =>
       /\ files' = files
       /\ \/ pc' = "killed" /\ ledger' = ledger
          \/ pc = "rsp" /\ pc' = "append" /\ ledger' = ledger
          \/ /\ pc = "append"
             /\ pc' = "chambers"
             /\ InLedger(lang, chamber)'
             /\ SomeChunkMissing(lang, chamber)']_vars

\* The rerun has recorded chamber A of the first language, whose chunk 1
\* was never written.
C14_Witness ==
  /\ mode = "run"
  /\ pc = "chambers"
  /\ runs = 2
  /\ calls = 0
  /\ aborted = {}
  /\ InLedger(lang, "A")
  /\ ChunkAt(lang, "A", 0).state = "full"
  /\ SomeChunkMissing(lang, "A")

(***************************************************************************)
(* C15.  The vocabulary snapshot of a language is written only by          *)
(* run_pipeline, for the language it is processing, when every input       *)
(* chamber of the language is in the ledger; the model of the next         *)
(* language is loaded only after the snapshot of the language before it    *)
(* was written; and the step at which a chunk fails writes no snapshot.    *)
(***************************************************************************)
C15_VocabAfterAllChambers ==
  [][/\ \A l \in Langs :
          (vocab'[l] # vocab[l] \/ (pc = "vocab" /\ pc' = "lang" /\ l = lang)) =>
            /\ mode = "run"
            /\ pc = "vocab"
            /\ l = lang
            /\ l = languages[li]
            /\ \A c \in ChamberList(l) : InLedger(l, c)
            /\ vocab'[l] = models[l]
     /\ (pc = "lang" /\ pc' = "ledger" /\ li > 1) =>
          vocab[languages[li - 1]] = models[languages[li - 1]]
     /\ pc' = "failed" => vocab' = vocab]_vars

\* The snapshot of the first language is written, both its chambers are in
\* the ledger, and the model of the second language is not loaded yet.
C15_Witness ==
  /\ mode = "run"
  /\ pc = "lang"
  /\ li = 2
  /\ runs = 1
  /\ vocab[languages[1]] = models[languages[1]]
  /\ vocab[languages[2]] = None
  /\ active_model = models[languages[1]]
  /\ \A c \in ChamberList(languages[1]) : InLedger(languages[1], c)

NextLive ==
  \/ StartRun
  \/ RunStep

SpecLive == Init /\ [][NextLive]_vars /\ WF_vars(RunStep)

RunComplete ==
  /\ pc = "done"
  /\ \A l \in Langs :
       /\ vocab[l] = models[l]
       /\ \A c \in ChamberList(l) : InLedger(l, c)

C17_RunTerminatesComplete ==
  /\ [](Running => <>RunComplete)
  /\ [](pc = "done" => RunComplete)

\* The first run has returned.
C17_Witness ==
  /\ RunComplete
  /\ runs = 1
  /\ NumRows(languages[1], "A") = MaxRows


(***************************************************************************)
(* LowerCourtExtractor.  The where clause is SQL: a comparison with NULL   *)
(* is unknown ("U"), and a row is selected when the clause is true ("T").  *)
(***************************************************************************)
SqlEq(a, b) == IF a = None \/ b = None THEN "U" ELSE IF a = b THEN "T" ELSE "F"
SqlNe(a, b) == IF a = None \/ b = None THEN "U" ELSE IF a # b THEN "T" ELSE "F"
SqlIsNotNull(a) == IF a = None THEN "F" ELSE "T"
SqlAnd(p, q) ==
  IF p = "F" \/ q = "F" THEN "F"
  ELSE IF p = "U" \/ q = "U" THEN "U"
  ELSE "T"

\* Mutant: the clause is spider='{spider}' AND header IS NOT NULL.
get_database_selection_string_NotNullOnly(sp, lg, row) ==
  SqlAnd(SqlEq(row.spider, sp), SqlIsNotNull(row.header))

\* f"spider='{spider}' AND header IS NOT NULL AND header <> ''", on a row;
\* lang is not used.
get_database_selection_string(sp, lg, row) ==
  SqlAnd(SqlAnd(SqlEq(row.spider, sp), SqlIsNotNull(row.header)),
         SqlNe(row.header, ""))

\* series['header']
get_required_data(series) == series.header

\* Python's bool() of a header: None and the empty string are false.
Bool(data) == data # None /\ data # ""

\* return bool(data)
check_condition_before_process(sp, data) == Bool(data)

\* self.logger_info
logger_info ==
  [start |-> "Started extracting lower court informations",
   finished |-> "Finished extracting lower court informations",
   start_spider |-> "Started extracting lower court informations for spider",
   finish_spider |-> "Finished extracting lower court informations for spider",
   saving |-> "Saving chunk of lower court informations",
   processing_one |-> "Extracting lower court informations from",
   no_functions |-> "Not extracting lower court informations."]

(***************************************************************************)
(* The base class of the extractors: for every spider not yet in the       *)
(* progress file and every language, select the rows, apply the spider's   *)
(* extraction function to the rows that pass the pre-condition, write the  *)
(* results, and mark the spider in the progress file.                      *)
(***************************************************************************)
\* The data source of a language.
Table(lg) == {row \in Decisions : row.language = lg}

\* The rows of a language's data source that satisfy the where clause.
Select(sp, lg) ==
  {row \in Table(lg) : get_database_selection_string(sp, lg, row) = "T"}

\* The extraction function is resolved by the spider's name.
HasFunction(sp) == sp \in functions

\* The spiders of the list that the progress file does not name.
RemainingSpiders(list, processed) ==
  {s \in list : <<s>> \notin SeqToSet(processed)}

ExtStopped == ext_pc \in {"idle", "done", "failed", "killed"}

\* The extractor is started: the progress file is read.
StartExtractor ==
  /\ ExtStopped
  /\ ext_starts < MaxStarts
  /\ ext_starts' = ext_starts + 1
  /\ spiders_todo' = RemainingSpiders(spider_list, ReadLedgerEntries(processed_file))
  /\ spider' = None
  /\ ext_li' = 1
  /\ selected' = NoSelection
  /\ ext_pc' = "spiders"
  /\ UNCHANGED <<runnervars, spider_list, functions, processed_file, lower_court,
                 logged>>

\* The next spider, one that has an extraction function.
PickSpider ==
  /\ ext_pc = "spiders"
  /\ \E s \in spiders_todo :
       /\ HasFunction(s)
       /\ spider' = s
       /\ spiders_todo' = spiders_todo \ {s}
  /\ ext_li' = 1
  /\ ext_pc' = "langs"
  /\ UNCHANGED <<runnervars, spider_list, functions, processed_file, lower_court,
                 logged, selected, ext_starts>>

\* Mutant: a spider without extraction function is an error.
SkipSpider_Raise ==
  /\ ext_pc = "spiders"
  /\ \E s \in spiders_todo :
       /\ ~HasFunction(s)
       /\ spider' = s
       /\ spiders_todo' = spiders_todo \ {s}
  /\ ext_pc' = "failed"
  /\ UNCHANGED <<runnervars, spider_list, functions, processed_file, lower_court,
                 logged, ext_li, selected, ext_starts>>

\* The next spider, one without extraction function: its rows are skipped
\* with the no_functions notice.  Whether the spider is marked in the
\* progress file is left open.
SkipSpider ==
  /\ ext_pc = "spiders"
  /\ \E s \in spiders_todo, mark \in BOOLEAN :
       /\ ~HasFunction(s)
       /\ spider' = s
       /\ spiders_todo' = spiders_todo \ {s}
       /\ logged' = logged \cup {<<logger_info.no_functions, s>>}
       /\ processed_file' = IF mark THEN AppendLine(processed_file, s)
                            ELSE processed_file
  /\ UNCHANGED <<runnervars, spider_list, functions, lower_court, ext_pc, ext_li,
                 selected, ext_starts>>

\* One language of the spider: select, gate, extract and write.
ExtractLang ==
  /\ ext_pc = "langs"
  /\ ext_li <= Len(languages)
  /\ LET lg == languages[ext_li]
         rows == Select(spider, lg)
     IN  /\ selected' = [spider |-> spider, lang |-> lg, rows |-> rows]
         /\ lower_court' = lower_court \cup
              {row \in rows :
                 check_condition_before_process(spider, get_required_data(row))}
  /\ ext_li' = ext_li + 1
  /\ UNCHANGED <<runnervars, spider_list, functions, processed_file, logged,
                 ext_pc, spiders_todo, spider, ext_starts>>

\* An extraction or a write raises: nothing catches it, the run ends.
ExtractFail ==
  /\ ext_pc = "langs"
  /\ ext_li <= Len(languages)
  /\ ext_pc' = "failed"
  /\ UNCHANGED <<runnervars, spider_list, functions, processed_file, lower_court,
                 logged, spiders_todo, spider, ext_li, selected, ext_starts>>

\* The languages are exhausted: the spider is marked as processed.
MarkSpider ==
  /\ ext_pc = "langs"
  /\ ext_li > Len(languages)
  /\ processed_file' = AppendLine(processed_file, spider)
  /\ ext_pc' = "spiders"
  /\ UNCHANGED <<runnervars, spider_list, functions, lower_court, logged,
                 spiders_todo, spider, ext_li, selected, ext_starts>>

\* The spiders are exhausted: the extractor returns.
FinishExtractor ==
  /\ ext_pc = "spiders"
  /\ spiders_todo = {}
  /\ ext_pc' = "done"
  /\ UNCHANGED <<runnervars, spider_list, functions, processed_file, lower_court,
                 logged, spiders_todo, spider, ext_li, selected, ext_starts>>

\* The extractor's process is killed: its locals are gone.
KillExtractor ==
  /\ ~ExtStopped
  /\ ext_pc' = "killed"
  /\ spiders_todo' = {}
  /\ spider' = None
  /\ ext_li' = 1
  /\ selected' = NoSelection
  /\ UNCHANGED <<runnervars, spider_list, functions, processed_file, lower_court,
                 logged, ext_starts>>

\* The extractor's program: the runner is not run (its input directory is
\* the layout whose chamber A is empty).  The list of spiders and the
\* spiders that have an extraction function are inputs.
InitExtractor ==
  /\ RunnerInit
  /\ split[languages[1]]["A"].rows = <<>>
  /\ spider_list \in SUBSET Spiders
  /\ functions \in SUBSET Spiders
  /\ ExtractorNotStarted

NextExtractor ==
  \/ StartExtractor
  \/ PickSpider
  \/ SkipSpider
  \/ ExtractLang
  \/ ExtractFail
  \/ MarkSpider
  \/ FinishExtractor
  \/ KillExtractor

SpecExtractor == InitExtractor /\ [][NextExtractor]_vars

SpiderOccurrences(s) ==
  LET entries == ReadLedgerEntries(processed_file)
  IN  Cardinality({i \in 1..Len(entries) : entries[i] = <<s>>})

(***************************************************************************)
(* C11: a spider without extraction function is no error.  The step that   *)
(* takes up such a spider x logs the no_functions notice, writes no row,   *)
(* leaves the progress-file entries of every other spider as they are and  *)
(* goes on with the remaining spiders; no row of x is ever written; and    *)
(* when the run returns, the progress file names every listed spider that  *)
(* has a function exactly once and no other spider that has a function:    *)
(* what a run over the list without x leaves.                              *)
(***************************************************************************)
C11_MissingFunctionSkipped ==
  [][/\ ext_pc = "spiders" => ext_pc' # "failed"
     /\ \A x \in Spiders \ functions :
          (ext_pc = "spiders" /\ x \in spiders_todo /\ spider' = x) =>
            /\ <<logger_info.no_functions, x>> \in logged'
            /\ lower_court' = lower_court
            /\ ext_pc' = "spiders"
            /\ spiders_todo' = spiders_todo \ {x}
            /\ \A s \in Spiders \ {x} : SpiderOccurrences(s)' = SpiderOccurrences(s)
     /\ \A row \in lower_court' : row.spider \in functions
     /\ ext_pc' = "done" =>
          \A s \in functions :
            SpiderOccurrences(s)' = IF s \in spider_list THEN 1 ELSE 0]_vars

\* One run that took up X first, which has no function, logged the notice,
\* and went on to extract and mark Y and Z.
C11_Witness ==
  /\ ext_starts = 1
  /\ ext_pc = "done"
  /\ "X" \in spider_list \ functions
  /\ <<logger_info.no_functions, "X">> \in logged
  /\ processed_file = <<"X", NL, "Y", NL, "Z", NL>>
  /\ \E row \in lower_court : row.spider = "Z"

====
